---- MODULE Spec2Model ----
(***************************************************************************)
(* Model of hw11.py: inverse-transform and rejection ("filtration")        *)
(* sampling of a flat-topped Laplace distribution, and the driver that     *)
(* compares the empirical CDF of the samples with the true CDF.            *)
(*                                                                         *)
(* Python floats are modelled as fixed-point numbers with four decimal     *)
(* digits: the integer n stands for the real n / ONE.  math.exp and        *)
(* math.log are computed in that arithmetic (argument reduction by powers  *)
(* of e, then a power series), every product and quotient rounds towards   *)
(* minus infinity.  A Python exception is a result record whose err field  *)
(* names the exception.                                                    *)
(***************************************************************************)
EXTENDS Integers, Sequences, FiniteSets

VARIABLES
    arg,      \* the parameter passed to the constructors (a)
    built,    \* TRUE once __init__ has run
    self_a,   \* self.a of the constructed objects
    last,     \* the most recent call of a method: [op, x, res]
    prev,     \* the call before it
    pc,       \* position inside FiltrationMethod.__call__
    M_loc,    \* local M of FiltrationMethod.__call__
    eta,      \* local eta of FiltrationMethod.__call__
    result,   \* what the sampler call returned or raised
    draws,    \* values random.random() gave to the current sampler call
    etas,     \* proposals made by the current sampler call
    method,   \* simulate's method argument: "inverse" or "filtration"
    steps,    \* simulate's steps argument
    spc,      \* position inside simulate
    calls,    \* number of times simulate has invoked method()
    data,     \* simulate's list data
    samples,  \* the values method() returned to simulate, in call order
    plots     \* curves handed to ax.plot, in order

vars == <<arg, built, self_a, last, prev, pc, M_loc, eta, result, draws, etas,
          method, steps, spc, calls, data, samples, plots>>

distVars == <<arg, built, self_a, last, prev>>
callVars == <<pc, M_loc, eta, result, draws, etas>>
simVars  == <<method, steps, spc, calls, data, samples, plots>>

(***************************************************************************)
(* Bounds of the model.                                                    *)
(***************************************************************************)
MaxA == 6        \* a ranges over 1/2, 2/2, ..., MaxA/2
MinA == 2        \* invalid a ranges over 0, -1/2, ..., -MinA/2
MaxX == 8        \* x ranges over the integers in [-MaxX, MaxX]
MaxRA == 10      \* for the density ratio, a ranges over 1/2, ..., MaxRA/2
MaxRX == 6       \* arguments of f, q and r: integers in [-MaxRX, MaxRX]
UDen == 8        \* arguments of inverse_cdf: the multiples of 1/UDen in [0,1)
CDen == 6        \* random.random() gives the multiples of 1/CDen in [0,1)
MaxCallA == 2    \* the samplers' a ranges over 1/2, ..., MaxCallA/2
MaxIter == 2     \* iterations of the rejection loop whose draws are recorded
MaxSteps == 3    \* simulate's steps ranges over 0..MaxSteps
Tol == 8         \* tolerance of an approximate equality, in units of 1/ONE
ExpTerms == 10   \* terms of the exponential series
LogTerms == 6    \* terms of the logarithm series

(***************************************************************************)
(* Fixed-point arithmetic.                                                 *)
(***************************************************************************)
ONE == 10000     \* the float 1.0
E == 27183       \* the float math.e
HALF == ONE \div 2

Abs(x) == IF x < 0 THEN -x ELSE x
Max(p, q) == IF p >= q THEN p ELSE q
Mul(p, q) == (p * q) \div ONE
Div(p, q) == (p * ONE) \div q

RECURSIVE ExpSeries(_, _)
ExpSeries(f, k) ==
    IF k > ExpTerms THEN ONE
    ELSE ONE + (f * ExpSeries(f, k + 1)) \div (k * ONE)

RECURSIVE ScaleE(_, _)
ScaleE(v, n) ==
    IF n = 0 THEN v
    ELSE IF n > 0 THEN ScaleE(Mul(v, E), n - 1)
    ELSE ScaleE(Div(v, E), n + 1)

\* math.exp(x): e^n * e^f with n the floor of x and f in [0,1).
Exp(x) ==
    LET n == x \div ONE
        f == x - n * ONE
    IN  ScaleE(ExpSeries(f, 1), n)

RECURSIVE Reduce(_, _)
Reduce(y, n) ==
    IF y >= E THEN Reduce(Div(y, E), n + 1)
    ELSE IF y < ONE THEN Reduce(Mul(y, E), n - 1)
    ELSE <<y, n>>

RECURSIVE AtanhSeries(_, _)
AtanhSeries(z2, k) ==
    IF k > LogTerms THEN 0
    ELSE Div(ONE, (2 * k + 1) * ONE) + Mul(z2, AtanhSeries(z2, k + 1))

\* The logarithm of y > 0: y = m * e^n with m in [1,e), ln m = 2 atanh((m-1)/(m+1)).
Log(y) ==
    LET mn == Reduce(y, 0)
        m == mn[1]
        z == Div(m - ONE, m + ONE)
    IN  mn[2] * ONE + 2 * Mul(z, AtanhSeries(Mul(z, z), 0))

(***************************************************************************)
(* Results of Python expressions: a value, or the exception raised.        *)
(***************************************************************************)
Ok(v) == [err |-> "none", val |-> v]
Raise(e) == [err |-> e, val |-> 0]
IsOk(r) == r.err = "none"
Bind(r, F(_)) == IF IsOk(r) THEN F(r.val) ELSE r

\* math.log raises ValueError (math domain error) on a non-positive argument.
MathLog(y) == IF y <= 0 THEN Raise("ValueError") ELSE Ok(Log(y))
\* Float division raises ZeroDivisionError on a zero divisor.
TrueDiv(p, q) == IF q = 0 THEN Raise("ZeroDivisionError") ELSE Ok(Div(p, q))

(***************************************************************************)
(* The distributions and the inverse functions.                            *)
(***************************************************************************)
\* Mutant of NormC: the tails' mass 2 * math.exp(-a) is left out.
NormC_NoTails(a) == TrueDiv(ONE, 2 * a)

\* c = 1 / (2 * math.exp(-a) + 2 * a)
NormC(a) == TrueDiv(ONE, 2 * Exp(-a) + 2 * a)

\* Mutant of TaskDistribution.cdf: the plateau branch lacks "+ a".
TaskDistribution_cdf_NoShift(a, x) ==
    Bind(NormC(a), LAMBDA c :
        IF x < -a THEN Ok(Mul(c, Exp(x)))
        ELSE IF x < a THEN Ok(Mul(c, Exp(-a) + x))
        ELSE Ok(Mul(c, 2 * Exp(-a) + 2 * a - Exp(-x))))

TaskDistribution_cdf(a, x) ==
    Bind(NormC(a), LAMBDA c :
        IF x < -a THEN Ok(Mul(c, Exp(x)))
        ELSE IF x < a THEN Ok(Mul(c, Exp(-a) + x + a))
        ELSE Ok(Mul(c, 2 * Exp(-a) + 2 * a - Exp(-x))))

\* The branch TaskInverseMethod.inverse_cdf takes on y.
InverseBranch(a, c, y) ==
    IF y < Mul(c, Exp(-a)) THEN "lower"
    ELSE IF ONE - y < Mul(c, Exp(-a)) THEN "upper"
    ELSE "else"

\* Mutant of TaskInverseMethod.inverse_cdf: the plateau branch lacks "- a".
TaskInverseMethod_inverse_cdf_NoShift(a, y) ==
    Bind(NormC(a), LAMBDA c :
        IF InverseBranch(a, c, y) = "lower"
            THEN Bind(TrueDiv(y, c), LAMBDA q : MathLog(q))
        ELSE IF InverseBranch(a, c, y) = "upper"
            THEN Bind(TrueDiv(ONE - y, c), LAMBDA q :
                     Bind(MathLog(q), LAMBDA l : Ok(-l)))
        ELSE Bind(TrueDiv(y, c), LAMBDA q : Ok(q - Exp(-a))))

\* Mutant of TaskInverseMethod.inverse_cdf: the upper branch lacks the minus sign.
TaskInverseMethod_inverse_cdf_NoMinus(a, y) ==
    Bind(NormC(a), LAMBDA c :
        IF InverseBranch(a, c, y) = "lower"
            THEN Bind(TrueDiv(y, c), LAMBDA q : MathLog(q))
        ELSE IF InverseBranch(a, c, y) = "upper"
            THEN Bind(TrueDiv(ONE - y, c), LAMBDA q : MathLog(q))
        ELSE Bind(TrueDiv(y, c), LAMBDA q : Ok(q - Exp(-a) - a)))

TaskInverseMethod_inverse_cdf(a, y) ==
    Bind(NormC(a), LAMBDA c :
        IF InverseBranch(a, c, y) = "lower"
            THEN Bind(TrueDiv(y, c), LAMBDA q : MathLog(q))
        ELSE IF InverseBranch(a, c, y) = "upper"
            THEN Bind(TrueDiv(ONE - y, c), LAMBDA q :
                     Bind(MathLog(q), LAMBDA l : Ok(-l)))
        ELSE Bind(TrueDiv(y, c), LAMBDA q : Ok(q - Exp(-a) - a)))

QDistribution_f(x) == Ok(Mul(HALF, Exp(-Abs(x))))

QInverseMethod_inverse_cdf(y) ==
    IF y < HALF THEN MathLog(2 * y)
    ELSE Bind(MathLog(2 * ONE - 2 * y), LAMBDA l : Ok(-l))

(***************************************************************************)
(* The rejection sampler's density, density ratio and envelope constant.   *)
(***************************************************************************)
TaskFiltrationMethod_f(a, x) ==
    Bind(NormC(a), LAMBDA c :
        IF Abs(x) > a THEN Ok(Mul(c, Exp(-Abs(x)))) ELSE Ok(c))

\* self.f(x) / self.QDist().f(x)
FiltrationMethod_r(a, x) ==
    Bind(TaskFiltrationMethod_f(a, x), LAMBDA fx :
        Bind(QDistribution_f(x), LAMBDA qx : TrueDiv(fx, qx)))

\* max(c / 0.5, 2 / c)
TaskFiltrationMethod_M(a) ==
    Bind(NormC(a), LAMBDA c :
        Bind(TrueDiv(c, HALF), LAMBDA p :
            Bind(TrueDiv(2 * ONE, c), LAMBDA q : Ok(Max(p, q)))))

(***************************************************************************)
(* Calls of the methods, one at a time, on objects built from arg.         *)
(***************************************************************************)
NoCall == [op |-> "none", x |-> 0, res |-> Ok(0)]
Called(o, x, r) == [op |-> o, x |-> x, res |-> r]

ValidA == {k * HALF : k \in 1..MaxA}
InvalidA == {-k * HALF : k \in 0..MinA}
XGrid == {k * ONE : k \in -MaxX..MaxX}
\* The breakpoints -a and a of the CDF and their neighbours.
Breakpoints(a) == {-a - 1, -a, -a + 1, a - 1, a, a + 1}
UGrid == {k * (ONE \div UDen) : k \in 0..(UDen - 1)}
\* The draws next to 0 and to 1, and the y = 0.1 of the worked example.
YGrid == UGrid \union {1, ONE - 1, ONE \div 10}
RatioA == {k * HALF : k \in 1..MaxRA}
RGrid == {k * ONE : k \in -MaxRX..MaxRX}

\* TaskDistribution.__init__, TaskInverseMethod.__init__,
\* TaskFiltrationMethod.__init__: self.a = a
Construct ==
    /\ ~built
    /\ built' = TRUE
    /\ self_a' = arg
    /\ UNCHANGED <<arg, last, prev, callVars, simVars>>

Record(o, x, r) ==
    /\ built
    /\ last' = Called(o, x, r)
    /\ prev' = last
    /\ UNCHANGED <<arg, built, self_a, callVars, simVars>>

\* The sample the previous call of inverse_cdf returned, if any.
LastSample ==
    IF last.op = "inverse_cdf" /\ IsOk(last.res) THEN {last.res.val} ELSE {}

Cdf ==
    \E x \in XGrid \union Breakpoints(self_a) \union LastSample :
        Record("cdf", x, TaskDistribution_cdf(self_a, x))

InverseCdf ==
    \E y \in YGrid :
        Record("inverse_cdf", y, TaskInverseMethod_inverse_cdf(self_a, y))

QInverseCdf ==
    \E y \in YGrid :
        Record("q_inverse_cdf", y, QInverseMethod_inverse_cdf(y))

F ==
    \E x \in RGrid \union {-self_a, self_a} :
        Record("f", x, TaskFiltrationMethod_f(self_a, x))

QF ==
    \E x \in RGrid \union {-self_a, self_a} :
        Record("q_f", x, QDistribution_f(x))

R ==
    \E x \in RGrid \union {-self_a, self_a} :
        Record("r", x, FiltrationMethod_r(self_a, x))

GetM == Record("M", 0, TaskFiltrationMethod_M(self_a))

IdleCall ==
    /\ pc = "idle" /\ M_loc = 0 /\ eta = 0 /\ result = Ok(0)
    /\ draws = <<>> /\ etas = <<>>
IdleSim ==
    /\ method = "none" /\ steps = 0 /\ spc = "idle" /\ calls = 0
    /\ data = <<>> /\ samples = <<>> /\ plots = <<>>

Unbuilt(A) ==
    /\ arg \in A
    /\ built = FALSE /\ self_a = 0
    /\ last = NoCall /\ prev = NoCall

InitDist == Unbuilt(ValidA) /\ IdleCall /\ IdleSim

NextDist == Construct \/ Cdf \/ InverseCdf \/ QInverseCdf

SpecDist == InitDist /\ [][NextDist]_vars

\* The density ratio and its envelope, for valid a.
InitRatio == Unbuilt(RatioA) /\ IdleCall /\ IdleSim

NextRatio == Construct \/ F \/ QF \/ R \/ GetM

SpecRatio == InitRatio /\ [][NextRatio]_vars

\* Objects built from an invalid parameter a <= 0.
InitInvalid == Unbuilt(InvalidA) /\ IdleCall /\ IdleSim

NextInvalid == Construct \/ Cdf \/ InverseCdf \/ F \/ GetM

SpecInvalid == InitInvalid /\ [][NextInvalid]_vars

(***************************************************************************)
(* The samplers.  random.random() gives any value of Draws.                *)
(***************************************************************************)
Draws == {k * (ONE \div CDen) : k \in 0..(CDen - 1)}
CallA == {k * HALF : k \in 1..MaxCallA}

\* InverseFunctionMethod.__call__: self.inverse_cdf(random.random()), for
\* the Q sampler and for TaskInverseMethod(a), on the draw u.
InverseFunctionMethod_call(kind, a, u) ==
    IF kind = "Q" THEN QInverseMethod_inverse_cdf(u)
    ELSE TaskInverseMethod_inverse_cdf(a, u)

\* Mutant of the acceptance test: the comparison is inverted.
Accepts_Inverted(rv, m, u) == rv < Mul(m, u)

\* self.r(eta) > M * a
Accepts(rv, m, u) == rv > Mul(m, u)

\* draws and etas are a record of the call kept only when keep is TRUE.
Push(h, v, keep) == IF keep THEN Append(h, v) ELSE h

\* FiltrationMethod.__call__ up to the loop: M = self.M(); Q = self.Q()
Enter ==
    /\ built /\ pc = "idle"
    /\ LET m == TaskFiltrationMethod_M(self_a)
       IN  IF IsOk(m)
           THEN pc' = "propose" /\ M_loc' = m.val /\ result' = result
           ELSE pc' = "raised" /\ M_loc' = M_loc /\ result' = m
    /\ calls' = calls + 1
    /\ UNCHANGED <<eta, draws, etas, distVars>>

\* A call of the sampler object by itself, outside simulate.
CallEnter ==
    /\ spc = "idle"
    /\ Enter
    /\ UNCHANGED <<method, steps, spc, data, samples, plots>>

\* eta = Q()
Propose(u, keep) ==
    /\ pc = "propose"
    /\ keep => Len(etas) < MaxIter
    /\ draws' = Push(draws, u, keep)
    /\ LET q == InverseFunctionMethod_call("Q", self_a, u)
       IN  IF IsOk(q)
           THEN /\ pc' = "test" /\ eta' = q.val
                /\ etas' = Push(etas, q.val, keep) /\ result' = result
           ELSE /\ pc' = "raised" /\ result' = q
                /\ UNCHANGED <<eta, etas>>
    /\ UNCHANGED <<M_loc, distVars, simVars>>

\* a = random.random(); if self.r(eta) > M * a: return eta
Test(u, keep) ==
    /\ pc = "test"
    /\ draws' = Push(draws, u, keep)
    /\ LET rr == FiltrationMethod_r(self_a, eta)
       IN  IF ~IsOk(rr) THEN pc' = "raised" /\ result' = rr
           ELSE IF Accepts(rr.val, M_loc, u)
                THEN pc' = "returned" /\ result' = Ok(eta)
           ELSE pc' = "propose" /\ result' = result
    /\ UNCHANGED <<M_loc, eta, etas, distVars, simVars>>

Built(A) ==
    /\ arg \in A
    /\ built = TRUE /\ self_a = arg
    /\ last = NoCall /\ prev = NoCall

\* One call of TaskFiltrationMethod(a), its draws recorded.
InitCall == Built(CallA) /\ IdleCall /\ IdleSim

ProposeRecorded == \E u \in Draws : Propose(u, TRUE)
TestRecorded == \E u \in Draws : Test(u, TRUE)

NextCall == CallEnter \/ ProposeRecorded \/ TestRecorded

SpecCall == InitCall /\ [][NextCall]_vars

\* One call of TaskFiltrationMethod(a) with a fair random source: whenever
\* draws keep being asked for at a place of the loop, every value of Draws
\* is given there again and again.
InitFair == Built(RatioA) /\ IdleCall /\ IdleSim

ProposeStep(u) == Propose(u, FALSE)
TestStep(u) == Test(u, FALSE)
ProposeFair == \E u \in Draws : ProposeStep(u)
TestFair == \E u \in Draws : TestStep(u)

NextFair == CallEnter \/ ProposeFair \/ TestFair

FairSpec ==
    /\ InitFair /\ [][NextFair]_vars
    /\ WF_vars(NextFair)
    /\ \A u \in Draws : SF_vars(ProposeStep(u)) /\ SF_vars(TestStep(u))

(***************************************************************************)
(* simulate(dist, method, steps, to_save), with dist and method built      *)
(* from the same a.                                                        *)
(***************************************************************************)
LinN == 100

\* np.linspace(-5, 5, 100)
LinSpace == [i \in 1..LinN |-> -5 * ONE + ((i - 1) * 10 * ONE) \div (LinN - 1)]

RECURSIVE Insert(_, _)
Insert(v, s) ==
    IF s = <<>> THEN <<v>>
    ELSE IF v <= Head(s) THEN <<v>> \o s
    ELSE <<Head(s)>> \o Insert(v, Tail(s))

\* Mutant of data.sort(): the list is left as it is.
Sort_Skipped(s) == s

\* data.sort()
RECURSIVE Sort(_)
Sort(s) == IF s = <<>> THEN <<>> ELSE Insert(Head(s), Sort(Tail(s)))

Curve(label, xs, ys) == [label |-> label, x |-> xs, y |-> ys]

\* x = np.linspace(-5, 5, 100); ax.plot(x, list(map(dist.cdf, x)), ...)
SimStart ==
    /\ built /\ spc = "idle" /\ method /= "none"
    /\ IF \A i \in 1..LinN : IsOk(TaskDistribution_cdf(self_a, LinSpace[i]))
       THEN /\ spc' = "sampling"
            /\ plots' = <<Curve("Real CDF", LinSpace,
                    [i \in 1..LinN |->
                        TaskDistribution_cdf(self_a, LinSpace[i]).val])>>
       ELSE spc' = "raised" /\ plots' = plots
    /\ UNCHANGED <<method, steps, calls, data, samples, distVars, callVars>>

\* One round of [method() for i in range(steps)], method a TaskInverseMethod.
SimInverse ==
    /\ spc = "sampling" /\ method = "inverse" /\ Len(data) < steps
    /\ calls' = calls + 1
    /\ \E u \in Draws :
         LET s == InverseFunctionMethod_call("Task", self_a, u)
         IN  IF IsOk(s)
             THEN /\ data' = Append(data, s.val)
                  /\ samples' = Append(samples, s.val)
                  /\ spc' = spc
             ELSE spc' = "raised" /\ UNCHANGED <<data, samples>>
    /\ UNCHANGED <<method, steps, plots, distVars, callVars>>

\* One round of the comprehension, method a TaskFiltrationMethod: the call
\* is entered, runs by Propose and Test, and its value is appended.
SimEnter ==
    /\ spc = "sampling" /\ method = "filtration" /\ Len(data) < steps
    /\ Enter
    /\ UNCHANGED <<method, steps, spc, data, samples, plots>>

SimAppend ==
    /\ spc = "sampling" /\ pc = "returned"
    /\ data' = Append(data, result.val)
    /\ samples' = Append(samples, result.val)
    /\ pc' = "idle" /\ M_loc' = 0 /\ eta' = 0 /\ result' = Ok(0)
    /\ UNCHANGED <<draws, etas, method, steps, spc, calls, plots, distVars>>

\* An exception of method() ends simulate.
SimRaise ==
    /\ spc = "sampling" /\ pc = "raised"
    /\ spc' = "raised"
    /\ pc' = "idle" /\ M_loc' = 0 /\ eta' = 0
    /\ UNCHANGED <<result, draws, etas, method, steps, calls, data, samples,
                   plots, distVars>>

\* data.sort(); ax.plot(data, [i / steps for i in range(steps)], ...);
\* ax.legend(); fig.savefig(to_save)
SimPlot ==
    /\ spc = "sampling" /\ pc = "idle" /\ Len(data) = steps
    /\ data' = Sort(data)
    /\ plots' = Append(plots, Curve("Heuristic CDF", Sort(data),
                    [i \in 1..steps |-> Div((i - 1) * ONE, steps * ONE)]))
    /\ spc' = "saved"
    /\ UNCHANGED <<method, steps, calls, samples, distVars, callVars>>

InitSim ==
    /\ Built(CallA) /\ IdleCall
    /\ method \in {"inverse", "filtration"}
    /\ steps \in 0..MaxSteps
    /\ spc = "idle" /\ calls = 0
    /\ data = <<>> /\ samples = <<>> /\ plots = <<>>

ProposeAny == \E u \in Draws : Propose(u, FALSE)
TestAny == \E u \in Draws : Test(u, FALSE)

NextSim ==
    \/ SimStart \/ SimInverse \/ SimEnter \/ ProposeAny \/ TestAny
    \/ SimAppend \/ SimRaise \/ SimPlot

SpecSim == InitSim /\ [][NextSim]_vars

(***************************************************************************)
(* Properties of the distributions and the inverse functions.              *)
(***************************************************************************)

\* C2: for a > 0 the density ratio r(x) returned for any x is at most the
\* envelope constant M() returned for the same a.
C2_RatioAtMostM ==
    (self_a > 0 /\ prev.op = "M" /\ last.op = "r"
        /\ IsOk(prev.res) /\ IsOk(last.res))
    => last.res.val <= prev.res.val

\* C3: for a > 0 and every y in [0,1), y = 0 included, inverse_cdf of
\* TaskInverseMethod and of QInverseMethod returns a number and raises nothing.
C3_InverseNeverRaises ==
    (self_a > 0 /\ last.op \in {"inverse_cdf", "q_inverse_cdf"})
    => IsOk(last.res)

\* C4: for a > 0 and y in (0,1), cdf applied to the sample inverse_cdf(y)
\* returned gives y back, up to the tolerance.
C4_RoundTrip ==
    (self_a > 0 /\ prev.op = "inverse_cdf" /\ prev.x > 0 /\ IsOk(prev.res)
        /\ last.op = "cdf" /\ last.x = prev.res.val)
    => (IsOk(last.res) /\ Abs(last.res.val - prev.x) <= Tol)

C4_Witness ==
    /\ self_a > 0 /\ prev.op = "inverse_cdf" /\ prev.x = ONE - 1
    /\ IsOk(prev.res) /\ prev.res.val > self_a
    /\ last.op = "cdf" /\ last.x = prev.res.val /\ IsOk(last.res)

\* C5: for a > 0 and y in [0,1) the tests y < c*e^-a and 1-y < c*e^-a are
\* never both true, and the value returned lies in the region of the CDF
\* whose formula the branch inverts: below -a for the first test, at or
\* above a for the second, in [-a, a] otherwise; for a = 0.5, y = 0.1 takes
\* the first branch and returns ln(y/c), about -1.508.
C5_BranchPartition ==
    (self_a > 0 /\ last.op = "inverse_cdf" /\ IsOk(NormC(self_a)))
    => LET y == last.x
           thr == Mul(NormC(self_a).val, Exp(-self_a))
           lower == y < thr
           upper == ONE - y < thr
       IN  /\ ~(lower /\ upper)
           /\ IsOk(last.res) =>
                /\ lower => last.res.val < -self_a
                /\ upper => last.res.val >= self_a
                /\ (~lower /\ ~upper) =>
                      (-self_a <= last.res.val /\ last.res.val <= self_a)
           /\ (self_a = HALF /\ y = ONE \div 10) =>
                (lower /\ IsOk(last.res) /\ Abs(last.res.val + 15082) <= Tol)

C5_Witness ==
    /\ self_a = HALF /\ last.op = "inverse_cdf" /\ last.x = ONE \div 10
    /\ IsOk(last.res) /\ last.res.val < -self_a
    /\ prev.op = "inverse_cdf" /\ prev.x = ONE - 1
    /\ IsOk(prev.res) /\ prev.res.val >= self_a

\* C7: for a > 0, M() is the maximum of the density ratio: some x has
\* r(x) = M() and no x has r(x) > M().
C7_MIsMaxRatio ==
    (self_a > 0 /\ last.op = "M" /\ IsOk(last.res))
    => /\ \E x \in RGrid \union {-self_a, self_a} :
            /\ IsOk(FiltrationMethod_r(self_a, x))
            /\ Abs(FiltrationMethod_r(self_a, x).val - last.res.val) <= Tol
       /\ \A x \in RGrid \union {-self_a, self_a} :
            IsOk(FiltrationMethod_r(self_a, x))
            => FiltrationMethod_r(self_a, x).val <= last.res.val + Tol

\* C8: for a > 0 the CDF is monotone non-decreasing, also across the
\* breakpoints -a and a, where it does not jump, and its values lie in [0,1].
C8_CdfMonotone ==
    (self_a > 0 /\ prev.op = "cdf" /\ last.op = "cdf")
    => /\ IsOk(prev.res) /\ IsOk(last.res)
       /\ 0 <= last.res.val /\ last.res.val <= ONE
       /\ prev.x < last.x => prev.res.val <= last.res.val
       /\ prev.x > last.x => prev.res.val >= last.res.val
       /\ last.x = prev.x + 1 => last.res.val - prev.res.val <= 1

C8_Witness ==
    /\ self_a > 0 /\ prev.op = "cdf" /\ last.op = "cdf"
    /\ prev.x = -self_a - 1 /\ last.x = self_a
    /\ IsOk(prev.res) /\ IsOk(last.res)
    /\ prev.res.val < last.res.val

\* C10 as stated: with a <= 0 every call of cdf, inverse_cdf, f or M ends in
\* a domain or arithmetic error.
C10_InvalidARaises ==
    (built /\ self_a <= 0 /\ last.op \in {"cdf", "inverse_cdf", "f", "M"})
    => last.res.err \in {"ValueError", "ZeroDivisionError"}

\* C10 as amended: construction stores any a unchanged, and with a <= 0 the
\* calls of cdf, f and M return a number, as does inverse_cdf except on
\* y = 0, where it raises ValueError as it does for valid a.
C10_InvalidAReturns ==
    /\ built => self_a = arg
    /\ (built /\ self_a <= 0 /\ last.op \in {"cdf", "inverse_cdf", "f", "M"})
       => \/ IsOk(last.res)
          \/ last.op = "inverse_cdf" /\ last.x = 0 /\ last.res.err = "ValueError"

C10_Witness ==
    /\ built /\ self_a < 0 /\ self_a = arg
    /\ prev.op = "cdf" /\ IsOk(prev.res)
    /\ last.op = "M" /\ IsOk(last.res)
(***************************************************************************)
(* Properties of the rejection sampler.                                    *)
(***************************************************************************)

\* C1: a call that returns has consumed 2k draws for some k >= 1; proposal
\* j is Q.inverse_cdf of draw 2j-1; the test r(eta_j) > M * u(2j) failed for
\* every j < k and succeeded, strictly, for j = k; and eta_k is returned.
C1_ReturnsFirstAccepted ==
    pc = "returned"
    => LET k == Len(etas)
       IN  /\ k >= 1 /\ Len(draws) = 2 * k
           /\ result = Ok(etas[k])
           /\ \A j \in 1..k :
                /\ QInverseMethod_inverse_cdf(draws[2 * j - 1]) = Ok(etas[j])
                /\ (j = k) <=>
                     (FiltrationMethod_r(self_a, etas[j]).val
                        > Mul(TaskFiltrationMethod_M(self_a).val, draws[2 * j]))

C1_Witness ==
    /\ pc = "returned" /\ Len(etas) = 2 /\ Len(draws) = 4
    /\ draws[4] > 0 /\ etas[1] /= etas[2] /\ result = Ok(etas[2])

\* C9, second half: with a > 0 and a fair random source every call that has
\* entered the loop eventually returns.
C9_EveryCallReturns == (pc = "propose") ~> (pc = "returned")

\* C9, first half: a failed test leads back to the proposal step, whatever
\* the number of failed tests before it.
C9_NoCap == [][(pc = "test" /\ pc' /= "returned") => pc' = "propose"]_vars

\* What holds of the code instead of C9's second half: every call ends, by
\* returning or by raising on a proposal draw of 0.
C9_EveryCallEnds == (pc = "propose") ~> (pc \in {"returned", "raised"})
(***************************************************************************)
(* Properties of simulate.                                                 *)
(***************************************************************************)
Count(s, v) == Cardinality({i \in 1..Len(s) : s[i] = v})

\* C6: when simulate has handed over its curves, method() has been invoked
\* exactly steps times; the empirical curve has steps points, its x-sequence
\* is non-decreasing and a permutation of the values method() returned, its
\* y-sequence is i/steps for i = 0..steps-1, from 0 to (steps-1)/steps.
C6_SimulateCurve ==
    spc = "saved"
    => /\ calls = steps /\ Len(samples) = steps /\ Len(plots) = 2
       /\ LET xs == plots[2].x
              ys == plots[2].y
          IN  /\ Len(xs) = steps /\ Len(ys) = steps
              /\ \A i \in 1..(steps - 1) : xs[i] <= xs[i + 1]
              /\ \A i \in 1..steps : Count(xs, xs[i]) = Count(samples, xs[i])
              /\ \A i \in 1..steps :
                    /\ ys[i] * steps <= (i - 1) * ONE
                    /\ (i - 1) * ONE < (ys[i] + 1) * steps
              /\ steps >= 1 => ys[1] = 0

C6_Witness ==
    /\ spc = "saved" /\ steps = 3 /\ method = "filtration" /\ calls = 3
    /\ Len(plots) = 2 /\ plots[2].x /= samples
    /\ plots[2].x[1] < plots[2].x[3]
    /\ plots[2].y[3] = (2 * ONE) \div 3
====
